---- MODULE Spec2Model ----
(***************************************************************************)
(* A model of the datastore package: the record codec (entry.go), the      *)
(* segment (Segment, segmentValsGenerator) and the database (Db: NewDb,    *)
(* recover, Put/Get, putHandler, initNewSegment, mergeOldSegments).        *)
(*                                                                         *)
(* Files are byte sequences.  The directory maps a path to an inode and    *)
(* its bytes; a file handle names an inode, so a handle whose path was     *)
(* renamed over or removed writes to bytes that no path reaches any more.  *)
(***************************************************************************)
EXTENDS Integers, Sequences, FiniteSets, TLC

(***************************************************************************)
(* Bounds of the exploration.                                              *)
(***************************************************************************)
\* Put calls in the wide profile (two keys, three values, two segment sizes)
MaxPuts == 3
\* Put calls in the long profile (one record per segment)
MaxPutsLong == 11
\* mergeOldSegments calls made directly (as the tests do)
MaxMerges == 1
\* process starts after the first one (Close or stop, then NewDb)
MaxBoots == 1
\* the same, in the long profile
MaxBootsLong == 1
\* goroutines that call Put in the concurrent profile
MaxCallers == 2
\* direct mergeOldSegments calls in the repeated-merge profile
MaxMergesTwice == 2
\* Put calls and mergeOldSegments goroutines in the parallel profile
MaxPutsPar == 2
MaxMergesPar == 2
\* Put calls and direct mergeOldSegments calls in the fault profile
MaxPutsFault == 3
MaxMergesFault == 1
\* Put calls in the long-value profile
MaxPutsBig == 3
\* Put calls in the concurrent profile
MaxPutsConc == 3
\* length of the keys and of the short string values given to the codec
MaxCodecLen == 2

(***************************************************************************)
(* Byte-level helpers (encoding/binary, little endian).                    *)
(***************************************************************************)
\* Any 32-bit quantity of 2^28 or more: larger than every file of the model.
Huge == 268435456

Min(a, b) == IF a < b THEN a ELSE b

\* s[from+1 .. to] in Go's s[from:to] notation (0-based, half open)
Slice(s, from, to) == SubSeq(s, from + 1, to)

RECURSIVE PutUint(_, _)
\* binary.LittleEndian.PutUint32/PutUint64 of a value given as a signed
\* integer: n bytes, least significant first, two's complement.
PutUint(v, n) ==
    IF n = 0 THEN <<>> ELSE <<v % 256>> \o PutUint(v \div 256, n - 1)

\* binary.LittleEndian.Uint32 of the first four bytes of b
Uint32(b) ==
    IF b[4] >= 16 THEN Huge
    ELSE b[1] + 256 * b[2] + 65536 * b[3] + 16777216 * b[4]

RECURSIVE Int64FromLE(_)
\* int64(binary.LittleEndian.Uint64(b)): the bytes read as two's complement
Int64FromLE(b) ==
    IF Len(b) = 1
    THEN (IF b[1] >= 128 THEN b[1] - 256 ELSE b[1])
    ELSE b[1] + 256 * Int64FromLE(Tail(b))

(***************************************************************************)
(* MemoryUnit: a size counted in bits; Byte is eight of them.              *)
(***************************************************************************)
Byte == 8

Bytes(m) == m \div Byte

(***************************************************************************)
(* entry.go                                                                *)
(***************************************************************************)
\* the value-type tags Str and Int (iota)
TypeStr == 0
TypeInt == 1

\* a Go interface{} value holding a string or an int64
StrVal(s) == [dyn |-> "string", s |-> s, n |-> 0]
IntVal(n) == [dyn |-> "int64", s |-> <<>>, n |-> n]

Entry(k, v, t) == [key |-> k, value |-> v, valueType |-> t]

Encode(e) ==
    LET kl == Len(e.key)
        vl == IF e.valueType = TypeInt THEN 8 ELSE Len(e.value.s)
        size == kl + vl + 13
        tag == IF e.value.dyn = "int64" THEN TypeInt ELSE TypeStr
    IN  PutUint(size, 4) \o PutUint(kl, 4) \o e.key \o <<tag>> \o PutUint(vl, 4)
        \o (IF e.valueType = TypeInt THEN PutUint(e.value.n, 8) ELSE e.value.s)

Size(e) ==
    IF e.valueType = TypeInt
    THEN (Len(e.key) + 13 + 8) * 8
    ELSE (Len(e.key) + Len(e.value.s) + 13) * 8

\* Decode panics (ok = FALSE) when a slice bound lies outside the input.
Decode(input) ==
    LET n == Len(input)
        bad == [ok |-> FALSE, e |-> Entry(<<>>, StrVal(<<>>), TypeStr)]
        good(e) == [ok |-> TRUE, e |-> e]
        value(kl, key, typeFlag, vl) ==
            IF kl + 13 + vl > n THEN bad
            ELSE IF typeFlag = TypeInt
            THEN (IF vl < 8 THEN bad
                  ELSE good(Entry(key,
                                  IntVal(Int64FromLE(Slice(input, kl + 13, kl + 21))),
                                  TypeInt)))
            ELSE good(Entry(key, StrVal(Slice(input, kl + 13, kl + 13 + vl)), TypeStr))
        key(kl) ==
            IF kl + 13 > n THEN bad
            ELSE value(kl, Slice(input, 8, kl + 8), input[kl + 9],
                       Uint32(Slice(input, kl + 9, kl + 13)))
    IN  IF n < 8 THEN bad ELSE key(Uint32(Slice(input, 4, 8)))

\* the default buffer of bufio.NewReader
defaultBufSize == 4096

ErrIO == "io"

\* readValue on a bufio.Reader of buffer size bsz over the bytes `rest`
\* (the file from the seek position on).  Every Peek/Discard/ReadByte needs
\* its bytes to exist; the final Read returns what is buffered.
readValue(rest, bsz) ==
    LET n == Len(rest)
        fail == [err |-> ErrIO, val |-> StrVal(<<>>)]
        \* what the final Read returns: filled is what the buffer still holds
        \* after the header was consumed, left what the file still holds
        got(valSize, filled, left) ==
            IF filled > 0 THEN Min(valSize, filled)
            ELSE IF valSize >= bsz THEN Min(valSize, left)
            ELSE Min(valSize, Min(left, bsz))
        value(typeFlag, valSize, used) ==
            IF typeFlag = TypeInt
            THEN (IF n - used < 8 THEN fail
                  ELSE [err |-> "nil",
                        val |-> IntVal(Int64FromLE(Slice(rest, used, used + 8)))])
            ELSE IF valSize = 0 THEN [err |-> "nil", val |-> StrVal(<<>>)]
            ELSE IF got(valSize, IF used < bsz THEN Min(n, bsz) - used ELSE 0, n - used)
                        # valSize
            THEN fail
            ELSE [err |-> "nil", val |-> StrVal(Slice(rest, used, used + valSize))]
        header(keySize) ==
            IF keySize + 8 + 1 + 4 > n THEN fail
            ELSE value(rest[keySize + 9],
                       Uint32(Slice(rest, keySize + 9, keySize + 13)),
                       keySize + 13)
    IN  IF n < 8 THEN fail ELSE header(Uint32(Slice(rest, 4, 8)))

(***************************************************************************)
(* The file system.  A path is a directory ("main" is outDir, "shadow" is  *)
(* outDir/shadow) and the decimal digits that follow "segment-".  fs maps  *)
(* each existing path to [ino, data].                                      *)
(***************************************************************************)
RECURSIVE Digits(_)
\* the %d of fmt.Sprintf("segment-%d", id)
Digits(n) == IF n < 10 THEN <<n>> ELSE Digits(n \div 10) \o <<n % 10>>

RECURSIVE Atoi(_)
\* strconv.Atoi of a digit string
Atoi(d) == IF Len(d) = 1 THEN d[1] ELSE 10 * Atoi(SubSeq(d, 1, Len(d) - 1)) + d[Len(d)]

SegmentPath(dir, id) == [dir |-> dir, name |-> Digits(id)]

RECURSIVE StringLess(_, _)
\* Go's < on two strings that share the prefix up to "segment-"
StringLess(a, b) ==
    IF Len(b) = 0 THEN FALSE
    ELSE IF Len(a) = 0 THEN TRUE
    ELSE IF a[1] # b[1] THEN a[1] < b[1]
    ELSE StringLess(Tail(a), Tail(b))

RECURSIVE SortFiles(_)
\* sort.Slice(files, files[i] < files[j]) of a set of paths of one directory
SortFiles(S) ==
    IF S = {} THEN <<>>
    ELSE LET m == CHOOSE p \in S : \A q \in S \ {p} : StringLess(p.name, q.name)
         IN  <<m>> \o SortFiles(S \ {m})

\* filepath.Glob(dir/segment-*)
Glob(fs, dir) == {p \in DOMAIN fs : p.dir = dir}

\* Db.getSegmentId: the digits after "segment-", converted by Atoi
getSegmentId(path) == Atoi(path.name)

\* the smallest inode number that no path and no open handle uses
FreshIno(fs, segs) ==
    LET used == {fs[p].ino : p \in DOMAIN fs} \cup {segs[i].file.ino : i \in DOMAIN segs}
    IN  CHOOSE i \in 1..(Cardinality(used) + 1) :
            i \notin used /\ \A j \in 1..(i - 1) : j \in used

\* os.Rename: the target path now names the source's inode
Rename(fs, from, to) ==
    [p \in (DOMAIN fs \ {from}) \cup {to} |-> IF p = to THEN fs[from] ELSE fs[p]]

\* os.Remove (an error for a missing file is ignored by the caller)
Remove(fs, path) == [p \in DOMAIN fs \ {path} |-> fs[p]]

\* os.RemoveAll of a directory
RemoveAll(fs, dir) == [p \in {q \in DOMAIN fs : q.dir # dir} |-> fs[p]]

\* file.Write on an append handle: the bytes go to the handle's inode
AppendTo(fs, ino, bytes) ==
    [p \in DOMAIN fs |->
        IF fs[p].ino = ino THEN [fs[p] EXCEPT !.data = @ \o bytes] ELSE fs[p]]

(***************************************************************************)
(* Segment: [id, offset, index, file], file = [name, ino, mode] with mode  *)
(* "a" (O_APPEND|O_WRONLY), "r" (os.Open) or "closed".                     *)
(***************************************************************************)
NoIndex == [k \in {} |-> 0]

ClosedFile(f) == [f EXCEPT !.ino = 0, !.mode = "closed"]

\* Segment.Close
SegmentClose(seg) == [seg EXCEPT !.file = ClosedFile(@)]

\* Segment.SetIndex
SetIndex(index, key, val) ==
    [k \in DOMAIN index \cup {key} |-> IF k = key THEN val ELSE index[k]]

\* Segment.Write that sets offset and index before it looks at the error
WriteEager(seg, fs, e) ==
    LET bytes == Encode(e)
        pos == seg.offset
        set == [seg EXCEPT !.offset = @ + Len(bytes),
                           !.index = SetIndex(@, e.key, pos)]
    IN  IF seg.file.mode # "a"
        THEN [err |-> ErrIO, seg |-> set, fs |-> fs]
        ELSE [err |-> "nil", seg |-> set, fs |-> AppendTo(fs, seg.file.ino, bytes)]

\* Segment.Write
Write(seg, fs, e) ==
    IF seg.file.mode # "a"
    THEN [err |-> ErrIO, seg |-> seg, fs |-> fs]
    ELSE LET bytes == Encode(e)
             pos == seg.offset
         IN  [err |-> "nil",
              seg |-> [seg EXCEPT !.offset = @ + Len(bytes),
                                  !.index = SetIndex(@, e.key, pos)],
              fs |-> AppendTo(fs, seg.file.ino, bytes)]

\* Segment.Get that ignores the ok of GetIndex: a missing key reads offset 0
SegmentGetNoOk(seg, fs, key) ==
    IF seg.file.name \notin DOMAIN fs
    THEN [err |-> ErrIO, val |-> StrVal(<<>>)]
    ELSE LET data == fs[seg.file.name].data
             pos == IF key \in DOMAIN seg.index THEN seg.index[key] ELSE 0
         IN  readValue(SubSeq(data, pos + 1, Len(data)), defaultBufSize)

\* Segment.Get
SegmentGet(seg, fs, key) ==
    IF seg.file.name \notin DOMAIN fs
    THEN [err |-> ErrIO, val |-> StrVal(<<>>)]
    ELSE IF key \notin DOMAIN seg.index
    THEN [err |-> "noelement", val |-> StrVal(<<>>)]
    ELSE LET data == fs[seg.file.name].data
             pos == seg.index[key]
         IN  readValue(SubSeq(data, pos + 1, Len(data)), defaultBufSize)

\* Segment.Has
Has(seg, fs, key) == SegmentGet(seg, fs, key).err = "nil"

\* Segment.IsSurpassed with >= for >
IsSurpassedGe(seg, maxSize) == seg.offset >= Bytes(maxSize)

\* Segment.IsSurpassed
IsSurpassed(seg, maxSize) == seg.offset > Bytes(maxSize)

bufSize == 8192

RECURSIVE GenRecords(_, _)
\* the loop of segmentValsGenerator over the unread bytes: the records it
\* sends and how it ends ("nil" at EOF, "corrupted", or "panic" when a
\* slice bound lies outside the bytes read).
GenRecords(data, bsz) ==
    LET stop(err) == [entries |-> <<>>, err |-> err]
        send(e, r) == [entries |-> <<e>> \o r.entries, err |-> r.err]
        decoded(size, d) ==
            IF ~d.ok THEN stop("panic")
            ELSE send(d.e, GenRecords(SubSeq(data, size + 1, Len(data)), bsz))
        sized(header, size) ==
            IF Min(size, Len(header)) # size THEN stop("corrupted")
            ELSE decoded(size, Decode(SubSeq(data, 1, size)))
        read(header) ==
            IF Len(header) < 4 THEN stop("panic") ELSE sized(header, Uint32(header))
    IN  IF Len(data) = 0 THEN stop("nil")
        ELSE read(SubSeq(data, 1, Min(bsz, Len(data))))

\* segmentValsGenerator: reopens the segment's file by name
segmentValsGenerator(seg, fs) ==
    IF seg.file.name \notin DOMAIN fs
    THEN [entries |-> <<>>, err |-> ErrIO]
    ELSE GenRecords(fs[seg.file.name].data, bufSize)

(***************************************************************************)
(* Db: [maxSegmentSize, outDir, segments, lastSegmentId, open].  The       *)
(* operators take the file system and return the new one; `others` are     *)
(* segments of another Db whose handles are open at the same time.         *)
(***************************************************************************)
ErrNotFound == "notfound"
ErrTooLarge == "toolarge"
ErrWrongType == "wrongtype"

segmentMergeThreshold == 10

\* Db.curSegment of a non-empty segment list
curSegment(db) == db.segments[Len(db.segments)]

\* Db.initNewSegment; spawn tells that `go db.mergeOldSegments()` ran
initNewSegment(db, fs, others) ==
    LET n == Len(db.segments)
        sealed == [i \in 1..n |->
                      IF i = n THEN SegmentClose(db.segments[i]) ELSE db.segments[i]]
        \* os.OpenFile(path, O_APPEND|O_WRONLY|O_CREATE): ino is the file's inode
        opened(newSegmentId, path, ino) ==
            [err |-> "nil",
             db |-> [db EXCEPT !.segments = sealed \o
                        <<[id |-> newSegmentId, offset |-> 0, index |-> NoIndex,
                           file |-> [name |-> path, ino |-> ino, mode |-> "a"]]>>],
             fs |-> [p \in DOMAIN fs \cup {path} |->
                        IF p \in DOMAIN fs THEN fs[p] ELSE [ino |-> ino, data |-> <<>>]],
             spawn |-> n + 1 > segmentMergeThreshold]
        open(newSegmentId, path) ==
            opened(newSegmentId, path,
                   IF path \in DOMAIN fs THEN fs[path].ino
                   ELSE FreshIno(fs, db.segments \o others))
        next(newSegmentId) == open(newSegmentId, SegmentPath(db.outDir, newSegmentId))
    IN  next((IF n = 0 THEN -1 ELSE curSegment(db).id) + 1)

\* Db.recoverSegment
recoverSegment(path, fs) ==
    LET \* the loop over the generator's entries: offsets and index after i of them
        replay(segment, g) ==
            LET offsetAt[i \in 0..Len(g.entries)] ==
                    IF i = 0 THEN 0 ELSE offsetAt[i - 1] + Bytes(Size(g.entries[i]))
                indexAt[i \in 0..Len(g.entries)] ==
                    IF i = 0 THEN NoIndex
                    ELSE SetIndex(indexAt[i - 1], g.entries[i].key, offsetAt[i - 1])
            IN  IF g.err # "nil" THEN [err |-> g.err, seg |-> segment]
                ELSE [err |-> "nil",
                      seg |-> [segment EXCEPT !.offset = offsetAt[Len(g.entries)],
                                              !.index = indexAt[Len(g.entries)]]]
        opened(segment) == replay(segment, segmentValsGenerator(segment, fs))
    IN  opened([id |-> getSegmentId(path), offset |-> 0, index |-> NoIndex,
                file |-> [name |-> path, ino |-> fs[path].ino, mode |-> "r"]])

RECURSIVE recoverFiles(_, _, _, _)
\* the loop of Db.recover over the sorted files, from file i on
recoverFiles(db, files, i, fs) ==
    LET recovered(r) ==
            IF r.err # "nil" THEN [err |-> r.err, db |-> db]
            ELSE recoverFiles(
                    [db EXCEPT !.segments = @ \o <<IF i = Len(files) THEN r.seg
                                                   ELSE SegmentClose(r.seg)>>,
                               !.lastSegmentId = r.seg.id],
                    files, i + 1, fs)
    IN  IF i > Len(files) THEN [err |-> "nil", db |-> db]
        ELSE recovered(recoverSegment(files[i], fs))

\* Db.recover
recover(db, fs, others) ==
    LET created(r) == [err |-> r.err, db |-> r.db, fs |-> r.fs]
        recovered(r) == [err |-> r.err, db |-> r.db, fs |-> fs]
        sorted(files) ==
            IF Len(files) = 0 THEN created(initNewSegment(db, fs, others))
            ELSE recovered(recoverFiles(db, files, 1, fs))
    IN  sorted(SortFiles(Glob(fs, db.outDir)))

\* a Db that is not open: the state between two processes
NoDb(dir, size) ==
    [maxSegmentSize |-> size, outDir |-> dir, segments |-> <<>>,
     lastSegmentId |-> 0, open |-> FALSE]

\* NewDb
NewDb(dir, size, fs, others) ==
    recover([NoDb(dir, size) EXCEPT !.open = TRUE], fs, others)

\* Db.Close
Close(db) ==
    [db EXCEPT !.open = FALSE,
               !.segments = [i \in DOMAIN @ |->
                               IF i = Len(@) THEN SegmentClose(@[i]) ELSE @[i]]]

RECURSIVE getFrom(_, _, _, _)
\* the loop of Db.getUnknown, from segment i down to the first
getFrom(db, fs, key, i) ==
    LET got(r) == IF r.err # "nil" THEN getFrom(db, fs, key, i - 1) ELSE r
    IN  IF i = 0 THEN [err |-> ErrNotFound, val |-> StrVal(<<>>)]
        ELSE got(SegmentGet(db.segments[i], fs, key))

\* Db.getUnknown
getUnknown(db, fs, key) == getFrom(db, fs, key, Len(db.segments))

\* Db.GetString
GetString(db, fs, key) ==
    LET typed(r) ==
            IF r.err # "nil" THEN [err |-> r.err, val |-> StrVal(<<>>)]
            ELSE IF r.val.dyn # "string" THEN [err |-> ErrWrongType, val |-> StrVal(<<>>)]
            ELSE r
    IN  typed(getUnknown(db, fs, key))

\* Db.GetInt64
GetInt64(db, fs, key) ==
    LET typed(r) ==
            IF r.err # "nil" THEN [err |-> r.err, val |-> IntVal(0)]
            ELSE IF r.val.dyn # "int64" THEN [err |-> ErrWrongType, val |-> IntVal(0)]
            ELSE r
    IN  typed(getUnknown(db, fs, key))

\* Db.putHandler without the comparison of the entry size to maxSegmentSize
putHandlerNoGuard(db, fs, e, others) ==
    LET written(r, w) ==
            [err |-> w.err,
             db |-> [r.db EXCEPT !.segments[Len(r.db.segments)] = w.seg],
             fs |-> w.fs,
             spawn |-> r.spawn]
        rotated(r) == written(r, Write(curSegment(r.db), r.fs, e))
    IN  rotated(IF IsSurpassed(curSegment(db), db.maxSegmentSize - Size(e))
                THEN initNewSegment(db, fs, others)
                ELSE [err |-> "nil", db |-> db, fs |-> fs, spawn |-> FALSE])

\* Db.putHandler
putHandler(db, fs, e, others) ==
    LET written(r, w) ==
            [err |-> w.err,
             db |-> [r.db EXCEPT !.segments[Len(r.db.segments)] = w.seg],
             fs |-> w.fs,
             spawn |-> r.spawn]
        rotated(r) == written(r, Write(curSegment(r.db), r.fs, e))
    IN  IF db.maxSegmentSize < Size(e)
        THEN [err |-> ErrTooLarge, db |-> db, fs |-> fs, spawn |-> FALSE]
        ELSE rotated(IF IsSurpassed(curSegment(db), db.maxSegmentSize - Size(e))
                     THEN initNewSegment(db, fs, others)
                     ELSE [err |-> "nil", db |-> db, fs |-> fs, spawn |-> FALSE])

\* Db.getNextSegmentPath
getNextSegmentPath(db) == SegmentPath(db.outDir, db.lastSegmentId + 1)

RECURSIVE collectVals(_, _, _, _)
\* the first loops of Db.mergeOldSegments: vals[key] is the last entry read
\* from the old segments, from segment i on, whose key the active segment
\* does not have; an iteration error ends the merge.
collectVals(db, fs, i, vals) ==
    LET read(g) ==
            LET valsAt[j \in 0..Len(g.entries)] ==
                    IF j = 0 THEN vals
                    ELSE IF Has(curSegment(db), fs, g.entries[j].key) THEN valsAt[j - 1]
                    ELSE SetIndex(valsAt[j - 1], g.entries[j].key, g.entries[j])
            IN  IF g.err # "nil" THEN [err |-> g.err, vals |-> vals]
                ELSE collectVals(db, fs, i + 1, valsAt[Len(g.entries)])
    IN  IF i > Len(db.segments) - 1 THEN [err |-> "nil", vals |-> vals]
        ELSE read(segmentValsGenerator(db.segments[i], fs))

\* the read handles one segmentValsGenerator leaves open: its os.Open of the
\* segment's file has no Close
generatorOpens(seg, fs) == IF seg.file.name \in DOMAIN fs THEN 1 ELSE 0

RECURSIVE collectOpens(_, _, _)
\* the read handles the first loops of Db.mergeOldSegments leave open, from
\* segment i on: one per iterated segment, up to the first iteration error
collectOpens(db, fs, i) ==
    LET rest(g) == IF g.err # "nil" THEN 0 ELSE collectOpens(db, fs, i + 1)
    IN  IF i > Len(db.segments) - 1 THEN 0
        ELSE generatorOpens(db.segments[i], fs)
               + rest(segmentValsGenerator(db.segments[i], fs))

\* the read handles Db.recover leaves open besides the last segment's, r being
\* its result: the generator's handle of every file it iterated and, on an
\* iteration error, the input of the recoverSegment that returned early
recoverOpens(r, fs, dir) ==
    LET left(files) ==
            IF Len(files) = 0 \/ r.err = "panic" THEN 0
            ELSE IF r.err = "nil" THEN Len(files)
            ELSE Len(r.db.segments) + 2
    IN  left(SortFiles(Glob(fs, dir)))

(***************************************************************************)
(* The inputs.                                                             *)
(***************************************************************************)
KeyA == <<97>>
KeyB == <<98>>
Keys == {KeyA, KeyB}

ValX == StrVal(<<120>>)
ValY == StrVal(<<121>>)
ValN == IntVal(-2)

\* the entry that PutString and PutInt64 build
PutEntry(k, v) == Entry(k, v, IF v.dyn = "int64" THEN TypeInt ELSE TypeStr)

\* wide profile: both keys, two strings and a number; a segment holds one
\* string record (and no number), or exactly two string records
InputsWide == {PutEntry(k, v) : k \in Keys, v \in {ValX, ValY, ValN}}
SizesWide == {15 * Byte, 30 * Byte}

\* long profiles: every record fills a segment; one key with two values, or
\* two keys with one value
InputsLongA == {PutEntry(KeyA, ValX), PutEntry(KeyA, ValY)}
InputsLongB == {PutEntry(KeyA, ValX), PutEntry(KeyB, ValX)}
SizesLong == {15 * Byte}

\* a workload: the entries the callers put, how many Put calls they make,
\* how many times the process is started again and how many times the
\* callers call mergeOldSegments themselves
LoadsWide == {[inputs |-> InputsWide, puts |-> MaxPuts, boots |-> MaxBoots,
               merges |-> MaxMerges]}
LoadsTwice == {[inputs |-> InputsWide, puts |-> MaxPuts, boots |-> 0,
                merges |-> MaxMergesTwice]}
\* fault profile: three keys, every record fills a segment, so that a merge
\* of two old segments writes two shadow segments
KeyC == <<99>>
InputsFault == {PutEntry(k, ValX) : k \in Keys \cup {KeyC}}
LoadsFault == {[inputs |-> InputsFault, puts |-> MaxPutsFault, boots |-> 0,
                merges |-> MaxMergesFault]}
LoadsLong == {[inputs |-> InputsLongA, puts |-> MaxPutsLong, boots |-> MaxBootsLong,
               merges |-> 0],
              [inputs |-> InputsLongB, puts |-> MaxPutsLong, boots |-> MaxBootsLong,
               merges |-> 0]}

\* concurrent profile: callers that put strings under one key, a reader and
\* a caller of Close; a segment holds one record or two
InputsConc == {PutEntry(KeyA, ValX), PutEntry(KeyA, ValY)}
SizesConc == {15 * Byte, 30 * Byte}
LoadsConc == {[inputs |-> InputsConc, puts |-> MaxPutsConc, boots |-> 0, merges |-> 0]}
\* parallel profile: two keys, so that a merge finds a key to copy
InputsPar == {PutEntry(KeyA, ValX), PutEntry(KeyB, ValX)}
LoadsPar == {[inputs |-> InputsPar, puts |-> MaxPutsPar, boots |-> 0,
              merges |-> MaxMergesPar]}

\* codec profile: keys and strings of up to MaxCodecLen bytes, numbers
\* around zero and at the ends of the range, and one string that makes the
\* record one byte longer than the buffer of bufio.NewReader
BytesCodec == {0, 97, 255}
StringsCodec == UNION {[1..m -> BytesCodec] : m \in 0..MaxCodecLen}
NumbersCodec == {-2147483647, -256, -123, -1, 0, 1, 123, 255, 256, 2147483647}
LongString == [i \in 1..(defaultBufSize - 13) |-> 120]
InputsCodec ==
    {PutEntry(k, v) : k \in StringsCodec,
                      v \in {StrVal(x) : x \in StringsCodec} \cup
                            {IntVal(x) : x \in NumbersCodec}}
    \cup {PutEntry(KeyA, StrVal(LongString))}
LoadsCodec == {[inputs |-> {e}, puts |-> 0, boots |-> 0, merges |-> 0] : e \in InputsCodec}

\* long-value profile: with key "a" a short value, the longest value whose
\* record fits the buffer of bufio.NewReader, and one byte more; segments
\* of two such buffers
InputsBig ==
    {PutEntry(KeyA, ValX), PutEntry(KeyB, ValX),
     PutEntry(KeyA, StrVal(SubSeq(LongString, 1, Len(LongString) - 1))),
     PutEntry(KeyA, StrVal(LongString))}
SizesBig == {2 * defaultBufSize * Byte}
LoadsBig == {[inputs |-> InputsBig, puts |-> MaxPutsBig, boots |-> 0, merges |-> 0]}

\* iterator profile: the codec entries and two records of key "a" that are
\* bufSize and bufSize + 1 bytes long
FullString == [i \in 1..(bufSize - 13 - Len(KeyA)) |-> 120]
InputsGen ==
    InputsCodec \cup {PutEntry(KeyA, StrVal(FullString)),
                      PutEntry(KeyA, StrVal(FullString \o <<120>>))}
LoadsGen == {[inputs |-> {e}, puts |-> 0, boots |-> 0, merges |-> 0] : e \in InputsGen}

(***************************************************************************)
(* State.                                                                  *)
(***************************************************************************)
\* db: the Db of the running process (NoDb between two processes)
\* fs: the directory outDir and its subdirectory shadow
\* mg: the locals of the running mergeOldSegments call
\* sched: mergeOldSegments goroutines started by initNewSegment, not yet run
\* res: the last call and what it returned
\* acked: per key, the value of the last Put that returned nil
\* hist: the view before the last successful merge, while only Close and
\*       NewDb followed it
\* boot: how the process before the running one ended
\* nputs, nmerges, nboots: calls made so far
\* load: the workload of this run
\* wl: the goroutine of handleWriteLoop: where it stands and the request it holds
\* calls: per caller, the putUnknown call it is in
\* gets: per reader, the GetString call it is in
\* fds: the files this process opened for reading that no segment of the
\*      list holds and that it has not closed
VARIABLES db, fs, mg, sched, res, acked, hist, boot, nputs, nmerges, nboots, load,
          wl, calls, gets, fds

\* the goroutines of the concurrent profile and the process's read handles
conc == <<wl, calls, gets, fds>>

vars == <<db, fs, mg, sched, res, acked, hist, boot, nputs, nmerges, nboots, load, conc>>

NoVal == StrVal(<<>>)
NoKey == <<>>

Result(op, key, val, err) == [op |-> op, key |-> key, val |-> val, err |-> err]

\* what Get returns for every key, with both accessors
View(d, f) ==
    [k \in Keys |-> [s |-> GetString(d, f, k), i |-> GetInt64(d, f, k)]]

NoView == [k \in Keys |-> [s |-> [err |-> ErrNotFound, val |-> NoVal],
                           i |-> [err |-> ErrNotFound, val |-> IntVal(0)]]]

NoHist == [stage |-> "none", view |-> NoView]

MgIdle ==
    [pc |-> "idle", segmentsToMerge |-> <<>>, vals |-> NoIndex, todo |-> {},
     sh |-> NoDb("shadow", 0), i |-> 0, swapped |-> FALSE, err |-> "nil",
     before |-> NoView, expect |-> NoIndex, renamed |-> <<>>, active |-> 0,
     again |-> FALSE, lastId |-> 0, files |-> {}]

NoAck == [some |-> FALSE, val |-> NoVal]

NoEntry == Entry(NoKey, NoVal, TypeStr)

Callers == 1..MaxCallers

\* handleWriteLoop blocked in `<-db.dataChan`, as NewDb leaves it
WlIdle == [pc |-> "recv", caller |-> 0, e |-> NoEntry, err |-> "nil", open |-> TRUE]

\* a caller that is in no putUnknown call
NoCall == [pc |-> "idle", e |-> NoEntry, afterClose |-> FALSE]

\* a reader that is in no GetString call
NoGet == [pc |-> "idle", key |-> NoKey, n |-> 0, allowed |-> {}, raced |-> FALSE]

InitWith(sizes, loads) ==
    LET created(r) ==
            /\ db = r.db
            /\ fs = r.fs
            /\ res = Result("NewDb", NoKey, NoVal, r.err)
    IN  /\ \E size \in sizes : created(NewDb("main", size, [p \in {} |-> 0], <<>>))
        /\ mg = MgIdle
        /\ sched = 0
        /\ wl = WlIdle
        /\ calls = [c \in Callers |-> NoCall]
        /\ gets = NoGet
        /\ fds = 0
        /\ acked = [k \in Keys |-> NoAck]
        /\ hist = NoHist
        /\ boot = "first"
        /\ nputs = 0 /\ nmerges = 0 /\ nboots = 0
        /\ load \in loads

Init == InitWith(SizesWide, LoadsWide)

InitLong == InitWith(SizesLong, LoadsLong)

InitConc == InitWith(SizesConc, LoadsConc)

InitTwice == InitWith(SizesWide, LoadsTwice)

InitPar == InitWith(SizesConc, LoadsPar)

InitFault == InitWith(SizesLong, LoadsFault)

InitCodec == InitWith(SizesLong, LoadsCodec)

InitGen == InitWith(SizesLong, LoadsGen)

InitBig == InitWith(SizesBig, LoadsBig)

(***************************************************************************)
(* Calls of the API.  A Put is the whole round trip of putUnknown: the     *)
(* request, putHandler under the merge lock in handleWriteLoop, the reply. *)
(***************************************************************************)
PutEntryCall(e) ==
    /\ db.open /\ mg.pc = "idle"
    /\ LET handled(r) ==
               /\ db' = r.db
               /\ fs' = r.fs
               /\ sched' = IF r.spawn THEN sched + 1 ELSE sched
               /\ res' = Result("Put", e.key, e.value, r.err)
               /\ acked' = IF r.err = "nil" /\ e.key \in Keys
                           THEN [acked EXCEPT ![e.key] = [some |-> TRUE, val |-> e.value]]
                           ELSE acked
       IN  handled(putHandler(db, fs, e, <<>>))
    /\ hist' = NoHist
    /\ nputs' = nputs + 1
    /\ UNCHANGED <<mg, boot, nmerges, nboots, load, conc>>

Put == \E e \in load.inputs : nputs < load.puts /\ PutEntryCall(e)

Get ==
    /\ db.open /\ mg.pc = "idle"
    /\ LET returned(op, k, r) == res' = Result(op, k, r.val, r.err)
       IN  \E k \in Keys :
              \/ returned("GetString", k, GetString(db, fs, k))
              \/ returned("GetInt64", k, GetInt64(db, fs, k))
    /\ UNCHANGED <<db, fs, mg, sched, acked, hist, boot, nputs, nmerges, nboots, load, conc>>

CloseDb ==
    /\ db.open /\ mg.pc = "idle"
    /\ db' = Close(db)
    /\ res' = Result("Close", NoKey, NoVal, "nil")
    /\ hist' = IF hist.stage = "merged" THEN [hist EXCEPT !.stage = "closed"] ELSE NoHist
    /\ UNCHANGED <<fs, mg, sched, acked, boot, nputs, nmerges, nboots, load, conc>>

\* the bytes of the file that path names (none when no file has that name)
FileData(f, path) == IF path \in DOMAIN f THEN f[path].data ELSE <<>>

\* the process stops, between any two steps
Stop ==
    /\ db.open
    /\ db' = NoDb("main", db.maxSegmentSize)
    /\ mg' = MgIdle
    /\ sched' = 0
    /\ res' = Result("Stop", NoKey, NoVal, "nil")
    /\ hist' = NoHist
    /\ fds' = 0
    /\ UNCHANGED <<fs, acked, boot, nputs, nmerges, nboots, load, wl, calls, gets>>

\* NewDb in a new process, on the directory the last one left
Open ==
    /\ ~db.open /\ res.op \in {"Close", "Stop"}
    /\ nboots < load.boots
    /\ LET created(r) ==
               /\ db' = IF r.err = "nil" THEN r.db ELSE NoDb("main", db.maxSegmentSize)
               /\ fs' = r.fs
               /\ res' = Result("NewDb", NoKey, NoVal, r.err)
               /\ fds' = recoverOpens(r, fs, "main")
       IN  created(NewDb("main", db.maxSegmentSize, fs, <<>>))
    /\ boot' = res.op
    /\ hist' = IF hist.stage = "closed" THEN [hist EXCEPT !.stage = "reopened"] ELSE NoHist
    /\ mg' = MgIdle
    /\ sched' = 0
    /\ nboots' = nboots + 1
    /\ UNCHANGED <<acked, nputs, nmerges, load, wl, calls, gets>>

\* the process stops inside the file.Write of a Put: the first n bytes of
\* the record, a proper prefix, are in the active segment's file
TornWrite ==
    /\ db.open /\ mg.pc = "idle"
    /\ nputs < load.puts
    /\ LET torn(r, path, rec, n) ==
               /\ r.err = "nil"
               /\ path \in DOMAIN r.fs
               /\ Len(r.fs[path].data) = Len(FileData(fs, path)) + Len(rec)
               /\ fs' = [r.fs EXCEPT ![path].data =
                                       SubSeq(@, 1, Len(@) - (Len(rec) - n))]
           written(r, rec) ==
               \E n \in 1..(Len(rec) - 1) :
                  torn(r, curSegment(r.db).file.name, rec, n)
       IN  \E e \in load.inputs : written(putHandler(db, fs, e, <<>>), Encode(e))
    /\ db' = NoDb("main", db.maxSegmentSize)
    /\ res' = Result("Stop", NoKey, NoVal, "nil")
    /\ hist' = [NoHist EXCEPT !.stage = "torn"]
    /\ nputs' = nputs + 1
    /\ fds' = 0
    /\ UNCHANGED <<mg, sched, acked, boot, nmerges, nboots, load, wl, calls, gets>>

(***************************************************************************)
(* Db.mergeOldSegments, one action per step that changes the directory or  *)
(* the Db.  It holds db.merge from its first step to its last, so no Put   *)
(* runs in between.  The shadow Db never has more than                     *)
(* segmentMergeThreshold segments here, so it starts no merge of its own.  *)
(***************************************************************************)
\* per key that an old segment indexes and the active segment does not:
\* the value a Get restricted to the old segments returns
OldLatest(d, f) ==
    LET n == Len(d.segments)
        old == {k \in Keys : /\ \E i \in 1..(n - 1) : k \in DOMAIN d.segments[i].index
                             /\ k \notin DOMAIN d.segments[n].index}
    IN  [k \in old |-> getFrom(d, f, k, n - 1)]

\* lock, snapshot of the old segments, vals, NewDb of the shadow directory
MergeBegin ==
    LET n == Len(db.segments)
        begun(c, s) ==
           IF c.err # "nil" \/ s.err # "nil"
           THEN /\ mg' = MgIdle
                /\ res' = Result("merge", NoKey, NoVal, IF c.err # "nil" THEN c.err ELSE s.err)
                /\ fs' = IF c.err # "nil" THEN fs ELSE RemoveAll(s.fs, "shadow")
           ELSE /\ mg' = [MgIdle EXCEPT
                            !.pc = IF DOMAIN c.vals = {} THEN "rename" ELSE "put",
                            !.segmentsToMerge = SubSeq(db.segments, 1, n - 1),
                            !.vals = c.vals,
                            !.todo = DOMAIN c.vals,
                            !.sh = s.db,
                            !.i = 1,
                            !.before = View(db, fs),
                            !.renamed = <<>>,
                            !.active = curSegment(db).id,
                            !.again = hist.stage = "merged",
                            !.lastId = db.lastSegmentId,
                            !.files = Glob(fs, db.outDir),
                            !.expect = OldLatest(db, fs)]
                /\ res' = Result("merging", NoKey, NoVal, "nil")
                /\ fs' = s.fs
        opened(c, s) ==
           fds' = fds + collectOpens(db, fs, 1)
                      + (IF c.err # "nil" THEN 0 ELSE recoverOpens(s, fs, "shadow"))
        merging(c, s) == begun(c, s) /\ opened(c, s)
    IN  /\ nmerges' = nmerges + 1
        /\ merging(collectVals(db, fs, 1, NoIndex),
                   NewDb("shadow", db.maxSegmentSize, fs, db.segments))
        /\ hist' = NoHist
        /\ UNCHANGED <<db, acked, boot, nputs, nboots, load, wl, calls, gets>>

\* the test's direct call of db.mergeOldSegments()
MergeCall ==
    /\ db.open /\ mg.pc = "idle"
    /\ nmerges < load.merges
    /\ MergeBegin
    /\ UNCHANGED sched

\* a goroutine started by initNewSegment gets the lock
MergeScheduled ==
    /\ db.open /\ mg.pc = "idle"
    /\ sched > 0
    /\ sched' = sched - 1
    /\ MergeBegin

\* shadowDb.putUnknown(e) for the next entry of vals, in map order
MergePut ==
    /\ mg.pc = "put"
    /\ LET handled(r, todo) ==
               /\ fs' = r.fs
               /\ mg' = [mg EXCEPT !.sh = r.db,
                                   !.todo = todo,
                                   !.err = r.err,
                                   !.pc = IF r.err # "nil" THEN "end"
                                          ELSE IF todo = {} THEN "rename" ELSE "put"]
       IN  \E k \in mg.todo :
              handled(putHandler(mg.sh, fs, mg.vals[k], db.segments), mg.todo \ {k})
    /\ res' = Result("merging", NoKey, NoVal, "nil")
    /\ UNCHANGED <<db, sched, acked, hist, boot, nputs, nmerges, nboots, load, conc>>

\* os.Rename of shadow segment i to getNextSegmentPath, lastSegmentId++
MergeRename ==
    /\ mg.pc = "rename"
    /\ LET from == mg.sh.segments[mg.i].file.name
           last == mg.i = Len(mg.sh.segments)
       IN  IF from \notin DOMAIN fs
           THEN /\ mg' = [mg EXCEPT !.err = ErrIO, !.pc = "end"]
                /\ UNCHANGED <<db, fs>>
           ELSE /\ fs' = Rename(fs, from, getNextSegmentPath(db))
                /\ db' = [db EXCEPT !.lastSegmentId = @ + 1]
                /\ mg' = [mg EXCEPT !.i = IF last THEN 1 ELSE @ + 1,
                                    !.renamed = @ \o <<getNextSegmentPath(db)>>,
                                    !.pc = IF last THEN "swap" ELSE "rename"]
    /\ res' = Result("merging", NoKey, NoVal, "nil")
    /\ UNCHANGED <<sched, acked, hist, boot, nputs, nmerges, nboots, load, conc>>

\* os.Rename of shadow segment i returns an error (an I/O fault)
MergeRenameFail ==
    /\ mg.pc = "rename"
    /\ mg' = [mg EXCEPT !.err = ErrIO, !.pc = "end"]
    /\ res' = Result("merging", NoKey, NoVal, "nil")
    /\ UNCHANGED <<db, fs, sched, acked, hist, boot, nputs, nmerges, nboots, load, conc>>

\* db.segments = append(shadowDb.segments, db.curSegment())
MergeSwap ==
    /\ mg.pc = "swap"
    /\ db' = [db EXCEPT !.segments = mg.sh.segments \o <<curSegment(db)>>]
    /\ mg' = [mg EXCEPT !.swapped = TRUE,
                        !.pc = IF Len(mg.segmentsToMerge) = 0 THEN "end" ELSE "remove"]
    /\ res' = Result("merging", NoKey, NoVal, "nil")
    /\ UNCHANGED <<fs, sched, acked, hist, boot, nputs, nmerges, nboots, load, conc>>

\* os.Remove(segment.FilePath()) of old segment i
MergeRemove ==
    /\ mg.pc = "remove"
    /\ fs' = Remove(fs, mg.segmentsToMerge[mg.i].file.name)
    /\ mg' = [mg EXCEPT !.i = @ + 1,
                        !.pc = IF mg.i = Len(mg.segmentsToMerge) THEN "end" ELSE "remove"]
    /\ res' = Result("merging", NoKey, NoVal, "nil")
    /\ UNCHANGED <<db, sched, acked, hist, boot, nputs, nmerges, nboots, load, conc>>

\* the deferred calls: shadowDb.Close(), os.RemoveAll(shadowDb.outDir),
\* db.merge.Unlock().  After the swap the shadow's segments are the Db's.
MergeEnd ==
    /\ mg.pc = "end"
    /\ LET m == Len(mg.sh.segments)
       IN  db' = IF mg.swapped
                 THEN [db EXCEPT !.segments[m] = SegmentClose(@)]
                 ELSE db
    /\ fs' = RemoveAll(fs, "shadow")
    /\ res' = Result("merge", NoKey, NoVal, mg.err)
    /\ hist' = IF mg.err = "nil" THEN [stage |-> "merged", view |-> mg.before] ELSE NoHist
    /\ mg' = MgIdle
    /\ UNCHANGED <<sched, acked, boot, nputs, nmerges, nboots, load, conc>>

MergeStep == MergePut \/ MergeRename \/ MergeSwap \/ MergeRemove \/ MergeEnd

Next ==
    \/ Put
    \/ Get
    \/ CloseDb
    \/ Open
    \/ MergeCall
    \/ MergePut
    \/ MergeRename
    \/ MergeSwap
    \/ MergeRemove
    \/ MergeEnd

Spec == Init /\ [][Next]_vars

NextLong ==
    \/ Put
    \/ CloseDb
    \/ Open
    \/ MergeScheduled
    \/ MergePut
    \/ MergeRename
    \/ MergeSwap
    \/ MergeRemove
    \/ MergeEnd

SpecLong == InitLong /\ [][NextLong]_vars

\* the wide profile with a process that may stop between any two steps
NextStop == Next \/ Stop

SpecStop == Init /\ [][NextStop]_vars

\* the wide profile in one process, with mergeOldSegments called again
NextTwice ==
    \/ Put
    \/ Get
    \/ MergeCall
    \/ MergePut
    \/ MergeRename
    \/ MergeSwap
    \/ MergeRemove
    \/ MergeEnd

SpecTwice == InitTwice /\ [][NextTwice]_vars

(***************************************************************************)
(* The concurrent profile: putUnknown and handleWriteLoop step by step, a  *)
(* GetString on another goroutine, and Close at any moment.  dataChan and  *)
(* res are unbuffered, so a send and its receive are one step.  Steps      *)
(* interleave; the accesses to db.open and db.segments that no lock or     *)
(* channel orders are data races.                                          *)
(***************************************************************************)
\* putUnknown up to `db.dataChan <- PutRequest{...}`, where the caller blocks
PutStart ==
    \E c \in Callers, e \in load.inputs :
        /\ calls[c].pc = "idle"
        /\ nputs + Cardinality({d \in Callers : calls[d].pc # "idle"}) < load.puts
        /\ calls' = [calls EXCEPT ![c] = [pc |-> "send", e |-> e, afterClose |-> ~db.open]]
        /\ gets' = IF gets.pc = "run" /\ gets.key = e.key
                   THEN [gets EXCEPT !.allowed = @ \cup {[err |-> "nil", val |-> e.value]}]
                   ELSE gets
        /\ UNCHANGED <<db, fs, mg, sched, res, acked, hist, boot, nputs, nmerges,
                       nboots, load, wl, fds>>

\* `data := <-db.dataChan` meets a blocked send
WriterRecv ==
    /\ wl.pc = "recv"
    /\ \E c \in Callers :
          /\ calls[c].pc = "send"
          /\ wl' = [pc |-> "handle", caller |-> c, e |-> calls[c].e, err |-> "nil",
                    open |-> db.open]
          /\ calls' = [calls EXCEPT ![c].pc = "wait"]
    /\ UNCHANGED <<db, fs, mg, sched, res, acked, hist, boot, nputs, nmerges,
                   nboots, load, gets, fds>>

\* what GetString returns for key k when no Put of k is in flight
Prev(k) ==
    IF acked[k].some THEN [err |-> "nil", val |-> acked[k].val]
    ELSE [err |-> ErrNotFound, val |-> NoVal]

\* a GetString(k) that has read len(db.segments) = n; raced tells that it
\* read n while the append that made it n was under way
Reading(k, n, raced) ==
    [pc |-> "run", key |-> k, n |-> n,
     allowed |-> {Prev(k)} \cup
         {[err |-> "nil", val |-> calls[c].e.value] :
             c \in {d \in Callers : calls[d].pc # "idle" /\ calls[d].e.key = k}},
     raced |-> raced]

\* the same step of handleWriteLoop without db.merge.Lock()
WriterHandleNoLock ==
    /\ wl.pc = "handle"
    /\ LET handled(r) ==
               /\ db' = r.db
               /\ fs' = r.fs
               /\ sched' = IF r.spawn THEN sched + 1 ELSE sched
               /\ wl' = [wl EXCEPT !.pc = "reply", !.err = r.err]
               /\ \/ gets' = gets
                  \/ /\ gets.pc = "idle" /\ db.open
                     /\ Len(r.db.segments) > Len(db.segments)
                     /\ \E k \in Keys : gets' = Reading(k, Len(r.db.segments), TRUE)
       IN  handled(putHandler(db, fs, wl.e, <<>>))
    /\ UNCHANGED <<res, acked, hist, boot, nputs, nmerges, nboots, load, calls, mg, fds>>

\* db.merge.Lock(); err := db.putHandler(data.entry); db.merge.Unlock().
\* getUnknown takes no lock: a GetString may read len(db.segments) while
\* initNewSegment appends to it, an unordered read and write of the slice.
WriterHandle ==
    /\ wl.pc = "handle" /\ mg.pc = "idle"
    /\ LET handled(r) ==
               /\ db' = r.db
               /\ fs' = r.fs
               /\ sched' = IF r.spawn THEN sched + 1 ELSE sched
               /\ wl' = [wl EXCEPT !.pc = "reply", !.err = r.err]
               /\ \/ gets' = gets
                  \/ /\ gets.pc = "idle" /\ db.open
                     /\ Len(r.db.segments) > Len(db.segments)
                     /\ \E k \in Keys : gets' = Reading(k, Len(r.db.segments), TRUE)
       IN  handled(putHandler(db, fs, wl.e, <<>>))
    /\ UNCHANGED <<res, acked, hist, boot, nputs, nmerges, nboots, load, calls, mg, fds>>

\* `data.res <- err` meets `err := <-res`; then the loop tests db.open
WriterReply ==
    /\ wl.pc = "reply"
    /\ calls' = [calls EXCEPT ![wl.caller] = NoCall]
    /\ res' = Result("Put", wl.e.key, wl.e.value, wl.err)
    /\ acked' = IF wl.err = "nil"
                THEN [acked EXCEPT ![wl.e.key] = [some |-> TRUE, val |-> wl.e.value]]
                ELSE acked
    /\ nputs' = nputs + 1
    /\ wl' = [WlIdle EXCEPT !.pc = IF db.open THEN "recv" ELSE "exited"]
    /\ hist' = NoHist
    /\ UNCHANGED <<db, fs, mg, sched, boot, nmerges, nboots, load, gets, fds>>

\* GetString up to `i := len(db.segments) - 1` of getUnknown
GetBegin ==
    /\ db.open /\ gets.pc = "idle"
    /\ \E k \in Keys : gets' = Reading(k, Len(db.segments), FALSE)
    /\ UNCHANGED <<db, fs, mg, sched, res, acked, hist, boot, nputs, nmerges,
                   nboots, load, wl, calls, fds>>

\* the loop of getUnknown from segment n - 1 down, and the return.  The
\* append stores the new length before the new element, so a reader that
\* raced with it may find db.segments[n - 1] still nil: seg.Get panics.
\* When a merge has put a shorter list in db.segments since the length was
\* read, db.segments[n - 1] is an index out of range.
GetEnd ==
    /\ gets.pc = "run"
    /\ LET returned(r) == res' = Result("GetString", gets.key, r.val, r.err)
           panic == [err |-> "panic", val |-> NoVal]
       IN  IF gets.n > Len(db.segments)
           THEN returned(panic)
           ELSE \/ returned(GetString([db EXCEPT !.segments = SubSeq(@, 1, gets.n)],
                                      fs, gets.key))
                \/ gets.raced /\ returned(panic)
    /\ gets' = NoGet
    /\ UNCHANGED <<db, fs, mg, sched, acked, hist, boot, nputs, nmerges,
                   nboots, load, wl, calls, fds>>

NextConc ==
    \/ PutStart
    \/ WriterRecv
    \/ WriterHandle
    \/ WriterReply
    \/ GetBegin
    \/ GetEnd
    \/ CloseDb

\* the scheduler runs the writer goroutine when it can take a step
SpecConc ==
    /\ InitConc /\ [][NextConc]_vars
    /\ WF_vars(WriterRecv) /\ WF_vars(WriterHandle) /\ WF_vars(WriterReply)
    /\ WF_vars(GetEnd)

\* the fault profile: one process in which an os.Rename of the merge may fail
NextFault ==
    \/ Put
    \/ Get
    \/ MergeCall
    \/ MergePut
    \/ MergeRename
    \/ MergeRenameFail
    \/ MergeSwap
    \/ MergeRemove
    \/ MergeEnd

SpecFault == InitFault /\ [][NextFault]_vars

(***************************************************************************)
(* The parallel profile: the writer goroutine, a GetString and goroutines  *)
(* that run mergeOldSegments, all on one Db.  A merge goroutine waits in   *)
(* db.merge.Lock() until no merge holds the lock; the writer takes the     *)
(* lock for the length of putHandler.                                      *)
(***************************************************************************)
\* `go db.mergeOldSegments()` by a caller: one more goroutine at the Lock
MergeGo ==
    /\ db.open
    /\ nmerges + sched < load.merges
    /\ sched' = sched + 1
    /\ UNCHANGED <<db, fs, mg, res, acked, hist, boot, nputs, nmerges, nboots,
                   load, conc>>

NextPar ==
    \/ PutStart
    \/ WriterRecv
    \/ WriterHandle
    \/ WriterReply
    \/ GetBegin
    \/ GetEnd
    \/ MergeGo
    \/ MergeScheduled
    \/ MergePut
    \/ MergeRename
    \/ MergeSwap
    \/ MergeRemove
    \/ MergeEnd

SpecPar == InitPar /\ [][NextPar]_vars

(***************************************************************************)
(* The codec profile: Encode of the entry of the load, then Decode of the  *)
(* bytes and readValue on a bufio.NewReader over them.                     *)
(***************************************************************************)
EncodeCall ==
    /\ res.op = "NewDb"
    /\ \E e \in load.inputs : res' = [op |-> "Encode", e |-> e, bytes |-> Encode(e)]
    /\ UNCHANGED <<db, fs, mg, sched, acked, hist, boot, nputs, nmerges, nboots, load, conc>>

DecodeCall ==
    /\ res.op = "Encode"
    /\ res' = [op |-> "Decode", e |-> res.e, dec |-> Decode(res.bytes)]
    /\ UNCHANGED <<db, fs, mg, sched, acked, hist, boot, nputs, nmerges, nboots, load, conc>>

readValueCall ==
    /\ res.op = "Encode"
    /\ res' = [op |-> "readValue", e |-> res.e, out |-> readValue(res.bytes, defaultBufSize)]
    /\ UNCHANGED <<db, fs, mg, sched, acked, hist, boot, nputs, nmerges, nboots, load, conc>>

NextCodec == EncodeCall \/ DecodeCall \/ readValueCall

SpecCodec == InitCodec /\ [][NextCodec]_vars

TypeOK ==
    /\ db.open \in BOOLEAN
    /\ mg.pc \in {"idle", "put", "rename", "swap", "remove", "end"}
    /\ sched \in 0..MaxPutsLong
    /\ fds \in Nat

\* a process that puts, reads, closes or stops, also inside a write, and
\* the next process on its directory; no merge runs
NextTorn == Put \/ Get \/ CloseDb \/ Stop \/ TornWrite \/ Open

SpecTorn == Init /\ [][NextTorn]_vars

\* the long-value profile: Puts and Gets of one process
NextBig == Put \/ Get

SpecBig == InitBig /\ [][NextBig]_vars

(***************************************************************************)
(* The iterator profile: a segment file made of the encoded entry of the   *)
(* load alone, or followed or preceded by a short record, and              *)
(* segmentValsGenerator over it.                                           *)
(***************************************************************************)
\* the files the iterator is run on: the records of es, one after the other
FileOf(es) ==
    IF Len(es) = 1 THEN Encode(es[1]) ELSE Encode(es[1]) \o Encode(es[2])

generatorCall ==
    /\ res.op = "Encode"
    /\ LET generated(es) ==
               res' = [op |-> "generate", es |-> es,
                       out |-> GenRecords(FileOf(es), bufSize)]
       IN  \/ generated(<<res.e>>)
           \/ generated(<<res.e, PutEntry(KeyB, ValY)>>)
           \/ generated(<<PutEntry(KeyB, ValY), res.e>>)
    /\ UNCHANGED <<db, fs, mg, sched, acked, hist, boot, nputs, nmerges, nboots, load, conc>>

NextGen == EncodeCall \/ generatorCall

SpecGen == InitGen /\ [][NextGen]_vars

(***************************************************************************)
(* Properties.                                                             *)
(***************************************************************************)
\* no call is running: the Db is open and no merge holds the lock
Quiet == db.open /\ mg.pc = "idle"

\* the typed Get of v's type returns v for key k
Reads(d, f, k, v) ==
    IF v.dyn = "string"
    THEN GetString(d, f, k) = [err |-> "nil", val |-> v]
    ELSE GetInt64(d, f, k) = [err |-> "nil", val |-> v]

\* every key reads as the value of its last successful Put
AckedReadable == \A k \in Keys : acked[k].some => Reads(db, fs, k, acked[k].val)

\* the step is a Put call of entry PutEntry(res'.key, res'.val)
IsPutStep == res'.op = "Put" /\ nputs' = nputs + 1

\* C1: in a process that only puts (no restart; merges only as rotation
\* starts them), every key reads as the value of its last successful Put.
C1_RoundTrip == (Quiet /\ nboots = 0) => AckedReadable

\* C2: after Puts, Close and NewDb (no merge ran), NewDb succeeds and every
\* key reads as the value of its last successful Put.
C2_DurableAcrossRestart ==
    (res.op = "NewDb" /\ boot = "Close" /\ nmerges = 0)
        => (res.err = "nil" /\ AckedReadable)

\* C3: for every key that Get resolved before mergeOldSegments, both typed
\* Gets return the same after it returns nil, in the same process.
C3_MergeKeepsValues ==
    hist.stage = "merged" =>
        \A k \in Keys : hist.view[k].s.err = "nil" \/ hist.view[k].i.err = "nil"
                            => View(db, fs)[k] = hist.view[k]

\* C4: after a successful merge, Close and NewDb, Get of every key returns
\* what it returned before the merge.
C4_MergeDurable ==
    hist.stage = "reopened" => (db.open /\ View(db, fs) = hist.view)

\* C5: after the process stopped between two steps, NewDb succeeds and
\* every key reads as the value of its last successful Put.
C5_CrashRecovery ==
    (res.op = "NewDb" /\ boot = "Stop") => (res.err = "nil" /\ AckedReadable)

\* C6: a key last put as a string reads as that string and GetInt64 of it
\* returns an error; a key last put as a number reads as that number and
\* GetString of it returns an error; also after Close and NewDb.
C6_TypeStrict ==
    Quiet =>
        \A k \in Keys : acked[k].some =>
            /\ Reads(db, fs, k, acked[k].val)
            /\ acked[k].val.dyn = "string" => GetInt64(db, fs, k).err # "nil"
            /\ acked[k].val.dyn = "int64" => GetString(db, fs, k).err # "nil"

\* C7: a Put of an entry larger than maxSegmentSize returns an error and
\* changes neither the Db (segment list, offsets, indexes) nor any file,
\* so every Get returns what it returned before.
C7_SizeGuard ==
    [][(IsPutStep /\ db.maxSegmentSize < Size(PutEntry(res'.key, res'.val)))
            => /\ res'.err # "nil"
               /\ db' = db
               /\ fs' = fs
               /\ View(db', fs') = View(db, fs)]_vars

\* C7 witness: a too large Put was refused while a key is stored
C7_Witness ==
    /\ res.op = "Put" /\ res.err = ErrTooLarge
    /\ \E k \in Keys : acked[k].some /\ Reads(db, fs, k, acked[k].val)

\* C8: GetString and GetInt64 of a key that no Put ever stored return
\* ErrNotFound and change neither the Db nor any file.
C8_NotFound ==
    [][(res'.op \in {"GetString", "GetInt64"} /\ ~acked[res'.key].some)
            => /\ res'.err = ErrNotFound
               /\ db' = db
               /\ fs' = fs]_vars

\* C8 witness: a Get of a key never stored, while another key is stored
C8_Witness ==
    /\ res.op \in {"GetString", "GetInt64"}
    /\ ~acked[res.key].some
    /\ \E k \in Keys : acked[k].some

\* C9: a Put of an entry of s <= maxSegmentSize bytes adds a segment if and
\* only if active.offset + s > maxSegmentSize, and then exactly one, which
\* is empty before the append; an entry that exactly fills the active
\* segment is appended to it.
C9_RotationRule ==
    [][(IsPutStep /\ Size(PutEntry(res'.key, res'.val)) <= db.maxSegmentSize)
            => LET s == Bytes(Size(PutEntry(res'.key, res'.val)))
                   n == Len(db.segments)
                   crosses == curSegment(db).offset + s > Bytes(db.maxSegmentSize)
               IN  /\ crosses => Len(db'.segments) = n + 1
                   /\ ~crosses => Len(db'.segments) = n
                   /\ res'.err = "nil" =>
                         curSegment(db').offset =
                             (IF crosses THEN 0 ELSE curSegment(db).offset) + s]_vars

\* C9 witness: two records fill the only segment exactly, without rotation
C9_Witness ==
    /\ res.op = "Put" /\ res.err = "nil"
    /\ Len(db.segments) = 1
    /\ curSegment(db).offset = Bytes(db.maxSegmentSize)
    /\ nputs = 2

\* the step is the return of a mergeOldSegments call with nil
MergeReturnsNil == mg.pc = "end" /\ mg.err = "nil" /\ mg'.pc = "idle" /\ db'.open

\* the keys of the records of a file, in file order
FileKeys(f, path) ==
    LET g == GenRecords(f[path].data, bufSize)
    IN  [j \in 1..Len(g.entries) |-> g.entries[j].key]

\* C10: when mergeOldSegments returns nil the list is the merged segments
\* followed by the segment that was active, unchanged and last; each key of
\* the old segments that the active segment lacks is indexed by exactly one
\* merged segment, whose file (under the name it was renamed to) holds one
\* record per indexed key, and reads as the key's latest old value.
C10_MergedLayout ==
    [][MergeReturnsNil =>
          LET m == Len(mg.renamed)
              old == curSegment(db)
          IN  /\ Len(db'.segments) = m + 1
              /\ curSegment(db') = old /\ old.id = mg.active
              /\ \A i \in 1..m :
                    /\ DOMAIN db'.segments[i].index \subseteq DOMAIN mg.expect
                    /\ DOMAIN db'.segments[i].index # {} =>
                          /\ mg.renamed[i] \in DOMAIN fs'
                          /\ LET ks == IF mg.renamed[i] \in DOMAIN fs'
                                       THEN FileKeys(fs', mg.renamed[i]) ELSE <<>>
                             IN  /\ Len(ks) = Cardinality(DOMAIN db'.segments[i].index)
                                 /\ {ks[j] : j \in 1..Len(ks)} = DOMAIN db'.segments[i].index
              /\ \A k \in DOMAIN mg.expect :
                    /\ Cardinality({i \in 1..m : k \in DOMAIN db'.segments[i].index}) = 1
                    /\ \A i \in 1..m :
                          (k \in DOMAIN db'.segments[i].index /\ mg.renamed[i] \in DOMAIN fs')
                              => LET data == fs'[mg.renamed[i]].data
                                     pos == db'.segments[i].index[k]
                                 IN  readValue(SubSeq(data, pos + 1, Len(data)), defaultBufSize)
                                         = mg.expect[k]]_vars

\* the step is handleWriteLoop's call of putHandler for the request it holds
IsHandleStep == wl.pc = "handle" /\ wl'.pc = "reply"

\* C11: a Put call that starts after Close has returned gets an error and
\* appends no record to any segment file.
C11_PutAfterClose ==
    [][(IsHandleStep /\ calls[wl.caller].afterClose)
            => /\ wl'.err # "nil"
               /\ \A p \in DOMAIN fs' :
                     fs'[p].data = IF p \in DOMAIN fs THEN fs[p].data ELSE <<>>]_vars

\* C12: under fair scheduling of the writer goroutine every Put call that
\* has started returns to its caller, also a call made after Close.
C12_PutCompletes ==
    \A c \in Callers : (calls[c].pc # "idle") ~> (calls[c].pc = "idle")

\* C13: a Put request that the writer loop received before Close was called
\* and handles after it returns success, and its record is appended to the
\* file of the segment that was active.
C13_CloseCompletesAccepted ==
    [][(IsHandleStep /\ wl.open /\ ~db.open /\ Size(wl.e) <= db.maxSegmentSize)
            => /\ wl'.err = "nil"
               /\ LET seg == curSegment(db')
                      data == fs'[seg.file.name].data
                  IN  /\ seg.file.name \in DOMAIN fs'
                      /\ Len(data) >= Len(Encode(wl.e))
                      /\ SubSeq(data, Len(data) - Len(Encode(wl.e)) + 1, Len(data))
                            = Encode(wl.e)]_vars

\* the step is the return of the reader's GetString
IsGetReturn == gets.pc = "run" /\ gets'.pc = "idle"

\* C14: with no merge, a GetString of key K on another goroutine returns
\* the value of the last Put of K that returned success before the Get
\* started (ErrNotFound if there is none) or the value of a Put of K that
\* was in flight during the Get; never another value or an error.
C14_Visibility ==
    [][(IsGetReturn /\ nmerges = 0)
            => [err |-> res'.err, val |-> res'.val] \in gets.allowed]_vars


\* C15: for every entry whose tag matches its value, Decode(Encode(e))
\* restores key, value and tag, readValue on Encode(e) returns the value
\* with its type, and len(Encode(e)) = len(key) + vl + 13 = Size().Bytes().
C15_CodecRoundTrip ==
    /\ res.op = "Encode" =>
          /\ Len(res.bytes) = Len(res.e.key) + 13 +
                                (IF res.e.valueType = TypeInt THEN 8 ELSE Len(res.e.value.s))
          /\ Len(res.bytes) = Bytes(Size(res.e))
    /\ res.op = "Decode" => res.dec = [ok |-> TRUE, e |-> res.e]
    /\ res.op = "readValue" => res.out = [err |-> "nil", val |-> res.e.value]

\* the same for the records that fit the buffer of bufio.NewReader
C15_ShortRecords ==
    (res.op # "NewDb" /\ Len(Encode(res.e)) <= defaultBufSize) => C15_CodecRoundTrip

\* the step is a Put that returned nil and added no segment
IsAppendStep ==
    IsPutStep /\ res'.err = "nil" /\ Len(db'.segments) = Len(db.segments)

\* the Put of the step appended its record to the active segment's file and
\* changed no other byte of any file
Appended ==
    LET path == curSegment(db).file.name
    IN  /\ DOMAIN fs' = DOMAIN fs
        /\ path \in DOMAIN fs
        /\ fs'[path].data = fs[path].data \o Encode(PutEntry(res'.key, res'.val))
        /\ \A p \in DOMAIN fs \ {path} : fs'[p].data = fs[p].data

C16_NoMerge == [][(IsAppendStep /\ nmerges = 0) => Appended]_vars

\* the step is the NewDb that follows a stop inside a write
IsTornRecovery == hist.stage = "torn" /\ res'.op = "NewDb"

\* C17: when the last segment file ends with a proper prefix of a record,
\* NewDb succeeds and every key reads as the value of its last complete
\* record.
C17_PartialTail ==
    [][IsTornRecovery =>
          /\ res'.err = "nil"
          /\ \A k \in Keys : acked[k].some => Reads(db', fs', k, acked[k].val)]_vars

\* the step is a Put on a Db whose active segment is the last file that
\* recover opened, and the record fits in it
IsRecoveredPut ==
    /\ IsPutStep
    /\ db.open /\ curSegment(db).file.mode = "r"
    /\ curSegment(db).offset + Len(Encode(PutEntry(res'.key, res'.val)))
           <= Bytes(db.maxSegmentSize)

\* C18: a Put that fits in the segment recovered last returns nil, its
\* record is in that file at the recovered offset and the key reads as the
\* value put.
C18_RecoveredActive ==
    [][IsRecoveredPut =>
          /\ res'.err = "nil"
          /\ LET seg == curSegment(db)
                 rec == Encode(PutEntry(res'.key, res'.val))
             IN  SubSeq(FileData(fs', seg.file.name), seg.offset + 1,
                        seg.offset + Len(rec)) = rec
          /\ Reads(db', fs', res'.key, res'.val)]_vars

\* the numeric ids of the segment files in directory dir
FileIds(f, dir) == {getSegmentId(p) : p \in Glob(f, dir)}

\* C19: after a NewDb that recovered files, lastSegmentId is the largest
\* numeric id among the segment files, also for ids of two digits.
C19_LastSegmentId ==
    (res.op = "NewDb" /\ res.err = "nil" /\ nboots > 0 /\ FileIds(fs, db.outDir) # {})
        => \A id \in FileIds(fs, db.outDir) : id <= db.lastSegmentId

\* the step is the return of a mergeOldSegments that was called right after
\* a successful one, with no Put in between: either its first loop fails
\* or its deferred calls run
IsSecondMergeReturn ==
    \/ hist.stage = "merged" /\ nmerges' = nmerges + 1 /\ res'.op = "merge"
    \/ mg.again /\ mg.pc = "end" /\ mg'.pc = "idle"

\* C20: a mergeOldSegments that directly follows a successful one returns
\* nil and every Get returns what it returned after the first.
C20_MergeIdempotent ==
    [][IsSecondMergeReturn =>
          /\ res'.err = "nil"
          /\ View(db', fs') = IF mg.pc = "idle" THEN View(db, fs) ELSE mg.before]_vars

\* the step is a Put whose putHandler called initNewSegment
IsRotationStep == IsPutStep /\ Len(db'.segments) = Len(db.segments) + 1

\* the step is an os.Rename of mergeOldSegments that returned nil
IsRenameStep == mg.pc = "rename" /\ db'.lastSegmentId = db.lastSegmentId + 1

\* C21: the file name a rotation opens and the file name a merge renames a
\* shadow segment to are names of no file that exists at that moment.
C21_FreshNames ==
    [][/\ IsRotationStep => curSegment(db').file.name \notin DOMAIN fs
       /\ IsRenameStep => getNextSegmentPath(db) \notin DOMAIN fs]_vars

\* the same for the rotations alone
C21_FreshRotation == [][IsRotationStep => curSegment(db').file.name \notin DOMAIN fs]_vars

\* the file of that name exists and holds, from offset pos on, a complete
\* encoded record of key k
RecordAt(f, path, pos, k) ==
    /\ path \in DOMAIN f
    /\ LET rest == SubSeq(f[path].data, pos + 1, Len(f[path].data))
           whole(size) ==
               /\ size <= Len(rest)
               /\ size >= 13
               /\ Decode(SubSeq(rest, 1, size)).ok
               /\ Decode(SubSeq(rest, 1, size)).e.key = k
       IN  Len(rest) >= 4 /\ whole(Uint32(SubSeq(rest, 1, 4)))

\* every index entry of every segment of d points at a record of its key
IndexValid(d, f) ==
    \A i \in DOMAIN d.segments :
       \A k \in DOMAIN d.segments[i].index :
          RecordAt(f, d.segments[i].file.name, d.segments[i].index[k], k)

\* C22: while the Db is open, every index entry of every segment points,
\* in the file the segment reads from, at a complete record of its key.
C22_IndexValid == db.open => IndexValid(db, fs)

\* the same in the states in which no merge is running
C22_IndexValidQuiet == Quiet => IndexValid(db, fs)

\* the same in a process in which no merge has run
C22_IndexValidNoMerge == (db.open /\ nmerges = 0) => IndexValid(db, fs)

\* the last segment of d has a handle open for appending and no other
\* segment has an open handle
OneActive(d) ==
    /\ Len(d.segments) > 0
    /\ curSegment(d).file.mode = "a"
    /\ \A i \in 1..(Len(d.segments) - 1) : d.segments[i].file.mode = "closed"

\* C23: while the Db is open, exactly one segment is open for appending,
\* the last of the list, and every other segment is sealed.
C23_OneActive == db.open => OneActive(db)

\* the same in the first process, in the states in which no merge is running
C23_OneActiveFirst == (Quiet /\ nboots = 0) => OneActive(db)

\* C24: while the Db is open, lastSegmentId is at least the id in the name
\* of every segment file of the directory.
C24_LastIdIsLargest ==
    db.open => \A id \in FileIds(fs, db.outDir) : id <= db.lastSegmentId

\* C25: the writer loop applies a Put only when no mergeOldSegments is
\* between its snapshot and its return, and a mergeOldSegments enters that
\* region only when no other one is in it.
C25_MergeExcludesWrites ==
    [][/\ IsHandleStep => (mg.pc = "idle" /\ mg'.pc = "idle")
       /\ nmerges' = nmerges + 1 => mg.pc = "idle"
       /\ (mg.pc # "idle" /\ mg'.pc # "idle") => (wl'.pc = "reply" => wl.pc = "reply")]_vars

\* a merge is in that region while the writer has received a Put and
\* another merge goroutine waits
C25_Witness == mg.pc # "idle" /\ wl.pc = "handle" /\ sched > 0

\* C26: a GetString that runs while a merge or the writer changes the
\* segment list returns without a panic the value of the last Put of its
\* key (or of a Put in flight), and ErrNotFound only for a key never put.
C26_GetDuringMergeOrRotation ==
    [][IsGetReturn => [err |-> res'.err, val |-> res'.val] \in gets.allowed]_vars

\* the same for a GetString that read the length of the list while no append
\* to it was under way
C26_GetDuringMerge ==
    [][(IsGetReturn /\ ~gets.raced) =>
          [err |-> res'.err, val |-> res'.val] \in gets.allowed]_vars

\* the step is the return of a mergeOldSegments that ran its deferred calls
IsMergeReturn == mg.pc = "end" /\ mg'.pc = "idle"

\* a Put starts a merge goroutine exactly when it rotates and the list then
\* has more than segmentMergeThreshold segments
C27_TriggerRule ==
    [][IsPutStep =>
          (sched' = sched + 1 <=>
              (IsRotationStep /\ Len(db'.segments) > segmentMergeThreshold))]_vars

\* C27: a rotation schedules a merge exactly when the list then has more
\* than segmentMergeThreshold segments, and when a merge has run, every Get
\* returns what it returned before the merge.
C27_MergeTrigger ==
    [][/\ IsPutStep =>
             (sched' = sched + 1 <=>
                 (IsRotationStep /\ Len(db'.segments) > segmentMergeThreshold))
       /\ IsPutStep => sched' \in {sched, sched + 1}
       /\ IsMergeReturn => View(db', fs') = mg.before]_vars

\* the step is the return of a mergeOldSegments with an error, from its
\* first loop or after its deferred calls
IsFailedMergeReturn ==
    \/ nmerges' = nmerges + 1 /\ res'.op = "merge" /\ res'.err # "nil"
    \/ IsMergeReturn /\ mg.err # "nil"

\* C28: when mergeOldSegments returns an error, the segment list,
\* lastSegmentId, the segment files of the directory and what Get returns
\* for every key are what they were when the merge started.
C28_FailedMergeIntact ==
    [][IsFailedMergeReturn =>
          IF mg.pc = "idle"
          THEN /\ db' = db
               /\ Glob(fs', db.outDir) = Glob(fs, db.outDir)
               /\ View(db', fs') = View(db, fs)
          ELSE /\ db'.segments = mg.segmentsToMerge \o <<curSegment(db)>>
               /\ db'.lastSegmentId = mg.lastId
               /\ Glob(fs', db.outDir) = mg.files
               /\ View(db', fs') = mg.before]_vars

\* the same for a merge that fails before any os.Rename has returned nil
C28_FailedBeforeRename ==
    [][(IsFailedMergeReturn /\ Len(mg.renamed) = 0) =>
          IF mg.pc = "idle"
          THEN db' = db /\ View(db', fs') = View(db, fs)
          ELSE /\ db'.lastSegmentId = mg.lastId
               /\ Glob(fs', db.outDir) = mg.files
               /\ View(db', fs') = mg.before]_vars

\* the step is a GetString or GetInt64 call that returns
IsGetStep == res'.op \in {"GetString", "GetInt64"} /\ gets = NoGet /\ gets' = NoGet /\ res' # res

\* the position in d.segments of the newest segment that indexes k (0: none)
Newest(d, k) ==
    LET with == {i \in DOMAIN d.segments : k \in DOMAIN d.segments[i].index}
    IN  IF with = {} THEN 0 ELSE CHOOSE i \in with : \A j \in with : j <= i

\* C29: when the read of the newest segment that indexes the key fails with
\* an I/O error, Get returns that error.
C29_ReadErrorsPropagate ==
    [][(/\ IsGetStep
        /\ Newest(db, res'.key) # 0
        /\ SegmentGet(db.segments[Newest(db, res'.key)], fs, res'.key).err = ErrIO)
          => res'.err = ErrIO]_vars

\* the step is a Put whose putHandler reaches Segment.Write on the active
\* segment without a rotation, and the handle of that segment is not open
\* for writing, so file.Write returns an error
IsFailedWriteStep ==
    /\ IsPutStep
    /\ db.open
    /\ Size(PutEntry(res'.key, res'.val)) <= db.maxSegmentSize
    /\ ~IsSurpassed(curSegment(db), db.maxSegmentSize - Size(PutEntry(res'.key, res'.val)))
    /\ curSegment(db).file.mode # "a"

\* C30: when file.Write fails, Put returns the error and the offset and
\* the index of the segment are what they were.
C30_FailedAppendAtomic ==
    [][IsFailedWriteStep =>
          /\ res'.err = ErrIO
          /\ Len(db'.segments) = Len(db.segments)
          /\ curSegment(db').offset = curSegment(db).offset
          /\ curSegment(db').index = curSegment(db).index]_vars

\* a Put has just failed in file.Write on a recovered segment that holds a
\* record of another key and none of its key
C30_Witness ==
    /\ res.op = "Put" /\ res.err = ErrIO
    /\ db.open /\ curSegment(db).file.mode = "r"
    /\ curSegment(db).offset > 0
    /\ res.key \notin DOMAIN curSegment(db).index

\* the ids of the segments of d increase along the list
IdsIncrease(d) ==
    \A i \in 1..(Len(d.segments) - 1) : d.segments[i].id < d.segments[i + 1].id

\* C31: after a NewDb that recovered files, the segments are in the list in
\* increasing numeric id, so the one with the highest id is last.
C31_RecoveryOrder ==
    (res.op = "NewDb" /\ res.err = "nil" /\ nboots > 0) => IdsIncrease(db)

\* the same for directories in which every id has one digit
C31_RecoveryOrderOneDigit ==
    (/\ res.op = "NewDb" /\ res.err = "nil" /\ nboots > 0
     /\ \A id \in FileIds(fs, db.outDir) : id < 10) => IdsIncrease(db)

\* C32: over a file that is one complete record after the other,
\* segmentValsGenerator yields each record once, in file order, with no
\* error, whatever the size of a record.
C32_IteratorYieldsAll ==
    res.op = "generate" => res.out = [entries |-> res.es, err |-> "nil"]

\* the same for files in which no record is longer than bufSize
C32_IteratorUpToBufSize ==
    (/\ res.op = "generate"
     /\ \A i \in DOMAIN res.es : Len(Encode(res.es[i])) <= bufSize)
        => res.out = [entries |-> res.es, err |-> "nil"]

\* the step is a GetString of a key whose last successful Put was a string
IsGetOfStored ==
    /\ IsGetStep /\ res'.op = "GetString"
    /\ acked[res'.key].some /\ acked[res'.key].val.dyn = "string"

\* C33: GetString returns the whole value of the last successful Put of
\* the key, whatever its length.
C33_LongValues ==
    [][IsGetOfStored => (res'.err = "nil" /\ res'.val = acked[res'.key].val)]_vars

\* the same for values whose record is no longer than the buffer of the
\* reader of Segment.Get
C33_ValuesUpToBuffer ==
    [][(IsGetOfStored /\ Len(acked[res'.key].val.s) + Len(res'.key) + 13 <= defaultBufSize)
          => (res'.err = "nil" /\ res'.val = acked[res'.key].val)]_vars

\* the file handles the process holds: the read handles outside the segment
\* list and the handles of the segments that are not closed
OpenHandles ==
    fds + Cardinality({i \in DOMAIN db.segments : db.segments[i].file.mode # "closed"})

\* C34: whenever no merge is running, the process holds at most one open
\* file handle, that of the active segment: the handles that recovery and
\* merge opened for reading are closed.
C34_HandlesReleased == mg.pc = "idle" => OpenHandles <= 1

\* the same in a process that has neither recovered a directory with
\* segment files nor merged
C34_HandlesFirstProcess == (nboots = 0 /\ nmerges = 0) => OpenHandles <= 1

\* the step is the return of a mergeOldSegments that returned nil
IsMergedReturn == IsMergeReturn /\ mg.err = "nil"

\* the segment list and the segment files of the directory are no more after
\* the merge than when it began
NotGrown ==
    /\ Len(db'.segments) <= Len(mg.segmentsToMerge) + 1
    /\ Cardinality(Glob(fs', db.outDir)) <= Cardinality(mg.files)

\* C35: a successful mergeOldSegments leaves no more segments in the list
\* and no more segment files in the directory than it found, also when the
\* active segment is the only one.
C35_MergeNeverGrows == [][IsMergedReturn => NotGrown]_vars

\* the same for a merge that found at least one sealed segment
C35_MergeOfSealedNeverGrows ==
    [][(IsMergedReturn /\ Len(mg.segmentsToMerge) > 0) => NotGrown]_vars
====
